---- MODULE Spec2Model ----
(***************************************************************************)
(* Rusty-Pong (src/src/main.rs): the Bevy app's state machine              *)
(* (Splash / Playing / GameWon), its per-frame systems and the deferred    *)
(* command queue, as a state machine.                                      *)
(*                                                                         *)
(* Numbers.  The program computes in f32.  Here every length and every     *)
(* velocity component is an integer count of 1/Scale game units (units per *)
(* second for velocities) and every time is an integer count of            *)
(* milliseconds; products are rounded to the nearest quantum.              *)
(*                                                                         *)
(* Scheduling.  The six Playing systems are added as one tuple without     *)
(* .chain(): Bevy gives them no order, so a frame runs them in any order   *)
(* (the set ran holds those that have run).  Commands (spawn/despawn) of   *)
(* the Update systems are deferred to the end of the Update schedule       *)
(* (EndFrame); NextState is applied by the StateTransition schedule at the *)
(* start of the next frame, which runs the OnEnter systems.                *)
(***************************************************************************)
EXTENDS Integers, Sequences, FiniteSets, TLC

VARIABLES
    gameState,      \* State<GameState>
    nextState,      \* NextState<GameState>: "None" or the pending state
    score,          \* GameScore.0
    balls,          \* the Ball entities: sequence of [x, y, vx, vy, cooldown]
    paddles,        \* the Paddle entities: [x, y, original_y, bounce_timer, is_bouncing]
    blocks,         \* the Block entities: set of <<game, cell>>
    walls,          \* number of wall sprites (no marker component)
    scoreText,      \* the Score text entities: sequence of displayed scores
    ui,             \* counts of the other entities: cameras, splash, start, win, restart
    commands,       \* deferred Commands of the running schedule, in queue order
    dt,             \* Time::delta of the current frame, in milliseconds
    phase,          \* "first": between frames; "update": inside the Update schedule
    ran,            \* the Update systems that have run in the current frame
    frame,          \* Playing frames completed since the game was set up
    games,          \* number of times setup_game has run
    origin,         \* which initial condition the behaviour started from
    clog,           \* what the last ball_collision_system step did (history)
    sinceHit        \* frame time since the frame of the last destruction (history)

vars == <<gameState, nextState, score, balls, paddles, blocks, walls, scoreText,
          ui, commands, dt, phase, ran, frame, games, origin, clog, sinceHit>>

----------------------------------------------------------------------------
(* Bounds of the model *)

\* fixed-point quanta per game unit
Scale == 10
\* Playing frames explored per game
MaxFrames == 1

\* frame times offered by the clock, in milliseconds: a 60 Hz frame and the longest
\* frame Bevy's virtual clock reports (max_delta, 250 ms)
DeltaTimes == {16, 250}

----------------------------------------------------------------------------
(* Program constants *)

WINDOW_WIDTH == 1280
WINDOW_HEIGHT == 720
PADDLE_HEIGHT == 20
PADDLE_WIDTH == 100
PADDLE_MARGIN == 30
BALL_SIZE == 46
BALL_COLLISION_MARGIN == 10
BALL_START_SPEED == 200
BALL_SPEED_MAX == 1000
PADDLE_SPEED == 12
\* setup_game: block_width, block_height, layers, the extra paddle lift
BLOCK_PITCH == 80
BLOCK_HEIGHT == 20
LAYERS == 4
PADDLE_LIFT == 100
\* ball_collision_system: the width used in the block test (block_width - 5.0)
BLOCK_WIDTH == 75
\* cooldown set by a block hit, bounce time and nudge of a bump, in ms / units
COOLDOWN_MS == 100
BOUNCE_MS == 200
BOUNCE_NUDGE == 15
\* ball_bounds_check: the buffer beyond the half width
BOUNDS_BUFFER == 100

----------------------------------------------------------------------------
(* Arithmetic *)

\* n game units as quanta
U(n) == n * Scale

Abs(a) == IF a < 0 THEN -a ELSE a

Sign(a) == IF a < 0 THEN -1 ELSE IF a > 0 THEN 1 ELSE 0

\* a / d rounded to the nearest integer (d > 0), halves away from zero
RoundDiv(a, d) ==
    IF a >= 0 THEN (2 * a + d) \div (2 * d) ELSE -((2 * (-a) + d) \div (2 * d))

\* v * num / den, rounded: a multiplication by the decimal literal num/den
Times(v, num, den) == RoundDiv(v * num, den)

RECURSIVE IsqrtIter(_, _, _)
IsqrtIter(n, lo, hi) ==
    IF lo >= hi THEN lo
    ELSE LET mid == (lo + hi + 1) \div 2
         IN  IF mid * mid <= n THEN IsqrtIter(n, mid, hi) ELSE IsqrtIter(n, lo, mid - 1)

\* floor of the square root
Isqrt(n) == IsqrtIter(n, 0, 46340)

\* Vec2::length, rounded to the nearest quantum
Length(vx, vy) == (Isqrt(4 * (vx * vx + vy * vy)) + 1) \div 2

Clamp(v, lo, hi) == IF v < lo THEN lo ELSE IF v > hi THEN hi ELSE v

----------------------------------------------------------------------------
(* Geometry *)

\* half of effective_ball_size = BALL_SIZE + BALL_COLLISION_MARGIN * 2.0
EBH == U(BALL_SIZE + 2 * BALL_COLLISION_MARGIN) \div 2
HALF_W == U(WINDOW_WIDTH) \div 2
HALF_H == U(WINDOW_HEIGHT) \div 2
PADDLE_HW == U(PADDLE_WIDTH) \div 2
PADDLE_HH == U(PADDLE_HEIGHT) \div 2

\* paddle rest height: -WINDOW_HEIGHT/2 + PADDLE_MARGIN + PADDLE_HEIGHT/2 + 100
PADDLE_REST_Y == -HALF_H + U(PADDLE_MARGIN) + PADDLE_HH + U(PADDLE_LIFT)

\* blocks_per_row = (WINDOW_WIDTH / block_width) as i32
BLOCKS_PER_ROW == WINDOW_WIDTH \div BLOCK_PITCH

\* the grid cells <<layer, i>> of setup_game's two loops
Cells == (0 .. LAYERS - 1) \X (0 .. BLOCKS_PER_ROW - 1)

\* x_pos = start_x + i * block_width, start_x = -(blocks_per_row * block_width)/2 + block_width/2
BlockX(c) == -(U(BLOCKS_PER_ROW * BLOCK_PITCH) \div 2) + U(BLOCK_PITCH) \div 2 + c[2] * U(BLOCK_PITCH)

\* y_pos = WINDOW_HEIGHT/2 - 50 - layer * (block_height + 10)
BlockY(c) == HALF_H - U(50) - c[1] * U(BLOCK_HEIGHT + 10)

----------------------------------------------------------------------------
(* Entities *)

\* the Ball bundle spawned by setup_game
NewBall == [x |-> 0, y |-> 0, vx |-> U(BALL_START_SPEED), vy |-> U(BALL_START_SPEED),
            cooldown |-> 0]

\* the Paddle bundle spawned by setup_game
NewPaddle == [x |-> 0, y |-> PADDLE_REST_Y, original_y |-> PADDLE_REST_Y,
              bounce_timer |-> 0, is_bouncing |-> FALSE]

\* the entities a schedule's commands act on
World == [balls |-> balls, paddles |-> paddles, blocks |-> blocks,
          scoreText |-> scoreText, ui |-> ui, walls |-> walls]

\* DespawnBlock with the despawn lost: the block stays
DespawnBlockLost(e) == [kind |-> "None", ent |-> e]

\* commands.entity(e).despawn() for one Block entity
DespawnBlock(e) == [kind |-> "Block", ent |-> e]

\* a despawn loop over a query: one despawn for each entity of the kind
DespawnAll(kind) == [kind |-> kind, ent |-> <<>>]

\* Despawn in an engine where a despawn that finds nothing to remove is fatal: the
\* app goes down with all its entities
DespawnOrPanic(w, c) ==
    LET r == CASE c.kind = "Block"         -> [w EXCEPT !.blocks = @ \ {c.ent}]
               [] c.kind = "Blocks"        -> [w EXCEPT !.blocks = {}]
               [] c.kind = "Ball"          -> [w EXCEPT !.balls = <<>>]
               [] c.kind = "Paddle"        -> [w EXCEPT !.paddles = <<>>]
               [] c.kind = "Score"         -> [w EXCEPT !.scoreText = <<>>]
               [] c.kind = "SplashScreen"  -> [w EXCEPT !.ui.splash = 0]
               [] c.kind = "StartButton"   -> [w EXCEPT !.ui.start = 0]
               [] c.kind = "WinScreen"     -> [w EXCEPT !.ui.win = 0]
               [] c.kind = "RestartButton" -> [w EXCEPT !.ui.restart = 0]
               [] c.kind = "Camera"        -> [w EXCEPT !.ui.cameras = 0]
               [] OTHER                    -> w
    IN  IF r # w THEN r
        ELSE [balls |-> <<>>, paddles |-> <<>>, blocks |-> {}, scoreText |-> <<>>,
              ui |-> [cameras |-> 0, splash |-> 0, start |-> 0, win |-> 0, restart |-> 0],
              walls |-> 0]

\* EntityCommands::despawn applied: the entity goes; one already gone is only warned about
Despawn(w, c) ==
    CASE c.kind = "Block"         -> [w EXCEPT !.blocks = @ \ {c.ent}]
      [] c.kind = "Blocks"        -> [w EXCEPT !.blocks = {}]
      [] c.kind = "Ball"          -> [w EXCEPT !.balls = <<>>]
      [] c.kind = "Paddle"        -> [w EXCEPT !.paddles = <<>>]
      [] c.kind = "Score"         -> [w EXCEPT !.scoreText = <<>>]
      [] c.kind = "SplashScreen"  -> [w EXCEPT !.ui.splash = 0]
      [] c.kind = "StartButton"   -> [w EXCEPT !.ui.start = 0]
      [] c.kind = "WinScreen"     -> [w EXCEPT !.ui.win = 0]
      [] c.kind = "RestartButton" -> [w EXCEPT !.ui.restart = 0]
      [] c.kind = "Camera"        -> [w EXCEPT !.ui.cameras = 0]
      [] OTHER                    -> w

\* the command queue applied in order
RECURSIVE ApplyCommands(_, _, _)
ApplyCommands(w, cs, i) ==
    IF i > Len(cs) THEN w ELSE ApplyCommands(Despawn(w, cs[i]), cs, i + 1)

----------------------------------------------------------------------------
(* Velocity *)

\* velocity.0 *= num/den
ScaleVelocity(b, num, den) ==
    [b EXCEPT !.vx = Times(b.vx, num, den), !.vy = Times(b.vy, num, den)]

\* velocity.normalize() * speed.  glam's normalize of the zero vector is NaN; the
\* velocity is never zero here (vy starts non-zero and no step makes it zero), and the
\* zero vector is left as it is.
NormalizeTo(b, speed) ==
    LET len == Length(b.vx, b.vy)
    IN  IF len = 0 THEN b
        ELSE [b EXCEPT !.vx = RoundDiv(b.vx * speed, len), !.vy = RoundDiv(b.vy * speed, len)]

\* ClampSpeed with the upper limit forgotten
ClampSpeedNoMax(b) ==
    LET len == Length(b.vx, b.vy)
    IN  NormalizeTo(b, IF len < U(BALL_START_SPEED) THEN U(BALL_START_SPEED) ELSE len)

\* "Clamp speed": speed = length().clamp(BALL_START_SPEED, BALL_SPEED_MAX);
\* velocity = normalize() * speed
ClampSpeed(b) ==
    NormalizeTo(b, Clamp(Length(b.vx, b.vy), U(BALL_START_SPEED), U(BALL_SPEED_MAX)))

----------------------------------------------------------------------------
(* ball_collision_system, step by step *)

\* left/right wall: abs-value flip and position clamp
SideWalls(b) ==
    IF b.x + EBH > HALF_W
    THEN [b EXCEPT !.vx = -Abs(b.vx), !.x = HALF_W - EBH]
    ELSE IF b.x - EBH < -HALF_W
         THEN [b EXCEPT !.vx = Abs(b.vx), !.x = -HALF_W + EBH]
         ELSE b

\* bottom wall: abs-value flip, then velocity *= 0.9
BottomWall(b) ==
    IF b.y - EBH < -HALF_H
    THEN ScaleVelocity([b EXCEPT !.vy = Abs(b.vy)], 9, 10)
    ELSE b

\* top wall: abs-value flip, then velocity *= 0.9
TopWall(b) ==
    IF b.y + EBH > HALF_H
    THEN ScaleVelocity([b EXCEPT !.vy = -Abs(b.vy)], 9, 10)
    ELSE b

\* horizontal overlap of the effective ball box with the paddle
PaddleOverlapX(b, p) ==
    /\ b.x + EBH > p.x - PADDLE_HW
    /\ b.x - EBH < p.x + PADDLE_HW

\* PaddleAim with the two speed-up factors swapped
PaddleAimSwapped(b, p) ==
    LET rel == b.x - p.x
        aimed == IF 20 * rel > U(PADDLE_WIDTH) THEN [b EXCEPT !.vx = Times(U(BALL_START_SPEED), 8, 10)]
                 ELSE IF 20 * rel < -U(PADDLE_WIDTH) THEN [b EXCEPT !.vx = -Times(U(BALL_START_SPEED), 8, 10)]
                 ELSE [b EXCEPT !.vx = 0]
    IN  IF b.y - p.y < 0 THEN ScaleVelocity(aimed, 115, 100) ELSE ScaleVelocity(aimed, 13, 10)

\* PaddleAim with the low-hit factor on every hit
PaddleAimAlwaysLow(b, p) ==
    LET rel == b.x - p.x
        aimed == IF 20 * rel > U(PADDLE_WIDTH) THEN [b EXCEPT !.vx = Times(U(BALL_START_SPEED), 8, 10)]
                 ELSE IF 20 * rel < -U(PADDLE_WIDTH) THEN [b EXCEPT !.vx = -Times(U(BALL_START_SPEED), 8, 10)]
                 ELSE [b EXCEPT !.vx = 0]
    IN  ScaleVelocity(aimed, 13, 10)

\* the directional reflection and the speed-up shared by both face branches
PaddleAim(b, p) ==
    LET rel == b.x - p.x
        aimed == IF 20 * rel > U(PADDLE_WIDTH) THEN [b EXCEPT !.vx = Times(U(BALL_START_SPEED), 8, 10)]
                 ELSE IF 20 * rel < -U(PADDLE_WIDTH) THEN [b EXCEPT !.vx = -Times(U(BALL_START_SPEED), 8, 10)]
                 ELSE [b EXCEPT !.vx = 0]
    IN  IF b.y - p.y < 0 THEN ScaleVelocity(aimed, 13, 10) ELSE ScaleVelocity(aimed, 115, 100)

\* "hitting the paddle from above (moving down)"
HitsTopFace(b, p) ==
    /\ b.vy < 0
    /\ b.y - EBH <= p.y + PADDLE_HH
    /\ b.y - EBH >= p.y - PADDLE_HH
    /\ PaddleOverlapX(b, p)

TopFace(b, p) ==
    IF HitsTopFace(b, p) THEN PaddleAim([b EXCEPT !.vy = Abs(b.vy)], p) ELSE b

\* "hitting the paddle from below (moving up)"
HitsBottomFace(b, p) ==
    /\ b.vy > 0
    /\ b.y + EBH >= p.y - PADDLE_HH
    /\ b.y + EBH <= p.y + PADDLE_HH
    /\ PaddleOverlapX(b, p)

BottomFace(b, p) ==
    IF HitsBottomFace(b, p) THEN PaddleAim([b EXCEPT !.vy = -Abs(b.vy)], p) ELSE b

\* vertical overlap used by the two side tests
PaddleOverlapY(b, p) ==
    /\ b.y + EBH > p.y - PADDLE_HH
    /\ b.y - EBH < p.y + PADDLE_HH

HitsLeftSide(b, p) ==
    /\ b.x + EBH >= p.x - PADDLE_HW
    /\ b.x - EBH <= p.x - PADDLE_HW
    /\ PaddleOverlapY(b, p)

HitsRightSide(b, p) ==
    /\ b.x - EBH <= p.x + PADDLE_HW
    /\ b.x + EBH >= p.x + PADDLE_HW
    /\ PaddleOverlapY(b, p)

LeftSide(b, p) == IF HitsLeftSide(b, p) THEN [b EXCEPT !.vx = -Abs(b.vx)] ELSE b

RightSide(b, p) == IF HitsRightSide(b, p) THEN [b EXCEPT !.vx = Abs(b.vx)] ELSE b

\* one iteration of the paddle loop
PaddleCollision(b, p) == RightSide(LeftSide(BottomFace(TopFace(b, p), p), p), p)

\* for paddle_transform in paddle_query.iter()
RECURSIVE PaddleLoop(_, _, _)
PaddleLoop(b, ps, i) ==
    IF i > Len(ps) THEN b ELSE PaddleLoop(PaddleCollision(b, ps[i]), ps, i + 1)

\* the ball after the wall and paddle parts, as the block loop finds it
BeforeBlocks(b, ps) == PaddleLoop(TopWall(BottomWall(SideWalls(b))), ps, 1)

\* the block test: plain BALL_SIZE against a 75 x 20 box (compared doubled: 75 is odd)
OverlapsBlock(b, e) ==
    /\ 2 * b.x + U(BALL_SIZE) > 2 * BlockX(e[2]) - U(BLOCK_WIDTH)
    /\ 2 * b.x - U(BALL_SIZE) < 2 * BlockX(e[2]) + U(BLOCK_WIDTH)
    /\ 2 * b.y + U(BALL_SIZE) > 2 * BlockY(e[2]) - U(BLOCK_HEIGHT)
    /\ 2 * b.y - U(BALL_SIZE) < 2 * BlockY(e[2]) + U(BLOCK_HEIGHT)

Overlapping(b, bs) == {e \in bs : OverlapsBlock(b, e)}

\* CooldownReady with the gate left open
CooldownReadyAlways(b) == TRUE

\* the gate of the destruction branch
CooldownReady(b) == b.cooldown <= 0

\* the destruction branch, ball side: velocity.y = -velocity.y; velocity *= 1.1; cooldown = 0.1
BlockBounce(b) ==
    [ScaleVelocity([b EXCEPT !.vy = -b.vy], 11, 10) EXCEPT !.cooldown = COOLDOWN_MS]

\* the blocks the loop can destroy: with the gate open, the first overlapping block in
\* iteration order (Bevy promises no order, so any of them); the hit closes the gate
\* for the rest of the loop
Destroyable(b, bs) == IF CooldownReady(b) THEN Overlapping(b, bs) ELSE {}

\* CooldownTick with the floor forgotten
CooldownTickNoFloor(b, d) == [b EXCEPT !.cooldown = @ - d]

\* "Update cooldown timer": cooldown -= delta, floored at 0
CooldownTick(b, d) == [b EXCEPT !.cooldown = IF @ - d < 0 THEN 0 ELSE @ - d]

\* the history record of a collision step
NoLog == [ran |-> FALSE]

----------------------------------------------------------------------------
(* The Update systems of Playing *)

PlayingSystems == {"paddle_movement_system", "ball_movement", "ball_collision_system",
                   "check_win_condition", "ball_bump_system", "ball_bounds_check"}

\* the Update systems whose run_if(in_state(..)) holds in state s
SystemsOf(s) ==
    CASE s = "Splash"  -> {"start_button"}
      [] s = "Playing" -> PlayingSystems
      [] s = "GameWon" -> {"restart_button"}

\* system name may run now: its state is current and it has not run in this frame
CanRun(name) ==
    /\ phase = "update"
    /\ name \in SystemsOf(gameState)
    /\ name \notin ran

Ran(name) == ran' = ran \cup {name}

\* MovePaddle with the clamp forgotten
MovePaddleNoClamp(p, left, right) ==
    [p EXCEPT !.x = p.x + ((IF left THEN -1 ELSE 0) + (IF right THEN 1 ELSE 0)) * U(PADDLE_SPEED)]

\* direction from the four keys, then x += direction * PADDLE_SPEED, clamped
MovePaddle(p, left, right) ==
    LET direction == (IF left THEN -1 ELSE 0) + (IF right THEN 1 ELSE 0)
    IN  [p EXCEPT !.x = Clamp(p.x + direction * U(PADDLE_SPEED),
                              -HALF_W + PADDLE_HW, HALF_W - PADDLE_HW)]

paddle_movement_system ==
    /\ CanRun("paddle_movement_system")
    /\ Ran("paddle_movement_system")
    /\ \E left \in BOOLEAN, right \in BOOLEAN :
          paddles' = [i \in 1 .. Len(paddles) |-> MovePaddle(paddles[i], left, right)]
    /\ UNCHANGED <<gameState, nextState, score, balls, blocks, walls, scoreText, ui,
                   commands, dt, phase, frame, games, origin, clog, sinceHit>>

\* translation += velocity * delta_secs, each axis
MoveBall(b, d) == [b EXCEPT !.x = @ + Times(b.vx, d, 1000), !.y = @ + Times(b.vy, d, 1000)]

ball_movement ==
    /\ CanRun("ball_movement")
    /\ Ran("ball_movement")
    /\ balls' = [i \in 1 .. Len(balls) |-> MoveBall(balls[i], dt)]
    /\ UNCHANGED <<gameState, nextState, score, paddles, blocks, walls, scoreText, ui,
                   commands, dt, phase, frame, games, origin, clog, sinceHit>>

ball_collision_system ==
    /\ CanRun("ball_collision_system")
    /\ Ran("ball_collision_system")
    /\ IF Len(balls) # 1
       THEN UNCHANGED <<balls, score, scoreText, commands, clog, sinceHit>>
       ELSE LET mid == BeforeBlocks(balls[1], paddles)
                hit == Destroyable(mid, blocks)
            IN  \/ /\ hit = {}
                   /\ balls' = <<ClampSpeed(CooldownTick(mid, dt))>>
                   /\ clog' = [ran |-> TRUE, pre |-> balls[1], mid |-> mid,
                               over |-> Overlapping(mid, blocks), hit |-> {}, score |-> score]
                   /\ UNCHANGED <<score, scoreText, commands, sinceHit>>
                \/ \E e \in hit :
                   /\ balls' = <<ClampSpeed(CooldownTick(BlockBounce(mid), dt))>>
                   /\ commands' = Append(commands, DespawnBlock(e))
                   /\ score' = score + 1
                   /\ scoreText' = [i \in 1 .. Len(scoreText) |-> score + 1]
                   /\ clog' = [ran |-> TRUE, pre |-> balls[1], mid |-> mid,
                               over |-> Overlapping(mid, blocks), hit |-> {e}, score |-> score]
                   /\ sinceHit' = 0
    /\ UNCHANGED <<gameState, nextState, paddles, blocks, walls, ui, dt, phase, frame,
                   games, origin>>

\* NoBlocks off by one: true with one block left
NoBlocksButOne == Cardinality(blocks) <= 1

\* block_query.is_empty()
NoBlocks == blocks = {}

\* WinTarget naming the default state instead
WinTargetSplash == "Splash"

\* next_state.set(GameState::GameWon)
WinTarget == "GameWon"

check_win_condition ==
    /\ CanRun("check_win_condition")
    /\ Ran("check_win_condition")
    /\ nextState' = IF NoBlocks THEN WinTarget ELSE nextState
    /\ UNCHANGED <<gameState, score, balls, paddles, blocks, walls, scoreText, ui,
                   commands, dt, phase, frame, games, origin, clog, sinceHit>>

\* the bump's collision test: effective ball box against the paddle box
Touching(b, p) == PaddleOverlapX(b, p) /\ PaddleOverlapY(b, p)

\* StartBounce with the is_bouncing test forgotten
StartBounceAgain(p) ==
    [p EXCEPT !.original_y = p.y, !.is_bouncing = TRUE, !.bounce_timer = BOUNCE_MS,
              !.y = p.y + U(BOUNCE_NUDGE)]

\* "Always bounce the paddle when spacebar is pressed", unless it is bouncing
StartBounce(p) ==
    IF p.is_bouncing THEN p
    ELSE [p EXCEPT !.original_y = p.y, !.is_bouncing = TRUE, !.bounce_timer = BOUNCE_MS,
                   !.y = p.y + U(BOUNCE_NUDGE)]

\* velocity *= 1.5, then the speed clamp
BumpBall(b) == ClampSpeed(ScaleVelocity(b, 15, 10))

\* "Update paddle bounce timer and return to original position"
BounceTick(p, d) ==
    IF ~p.is_bouncing THEN p
    ELSE IF p.bounce_timer - d <= 0
         THEN [p EXCEPT !.bounce_timer = @ - d, !.y = p.original_y, !.is_bouncing = FALSE]
         ELSE [p EXCEPT !.bounce_timer = @ - d]

ball_bump_system ==
    /\ CanRun("ball_bump_system")
    /\ Ran("ball_bump_system")
    /\ \E space \in BOOLEAN :
          LET bump == space /\ Len(paddles) = 1 /\ Len(balls) = 1
              ps == IF bump THEN <<StartBounce(paddles[1])>> ELSE paddles
          IN  /\ paddles' = [i \in 1 .. Len(ps) |-> BounceTick(ps[i], dt)]
              /\ balls' = IF bump /\ Touching(balls[1], paddles[1])
                          THEN <<BumpBall(balls[1])>> ELSE balls
    /\ UNCHANGED <<gameState, nextState, score, blocks, walls, scoreText, ui, commands,
                   dt, phase, frame, games, origin, clog, sinceHit>>

\* max_allowed_distance = WINDOW_WIDTH / 2.0 + 100.0, used for both axes
MaxAllowedDistance == HALF_W + U(BOUNDS_BUFFER)

OutOfBounds(b) == Abs(b.x) > MaxAllowedDistance \/ Abs(b.y) > MaxAllowedDistance

\* the reset, then the stuck-ball guard (length < BALL_START_SPEED * 0.5)
BoundsCheck(b) ==
    LET r == IF OutOfBounds(b)
             THEN [b EXCEPT !.x = 0, !.y = 0, !.vx = U(BALL_START_SPEED), !.vy = U(BALL_START_SPEED)]
             ELSE b
    IN  IF 2 * Length(r.vx, r.vy) < U(BALL_START_SPEED)
        THEN NormalizeTo(r, U(BALL_START_SPEED))
        ELSE r

ball_bounds_check ==
    /\ CanRun("ball_bounds_check")
    /\ Ran("ball_bounds_check")
    /\ balls' = IF Len(balls) = 1 THEN <<BoundsCheck(balls[1])>> ELSE balls
    /\ UNCHANGED <<gameState, nextState, score, paddles, blocks, walls, scoreText, ui,
                   commands, dt, phase, frame, games, origin, clog, sinceHit>>

----------------------------------------------------------------------------
(* The Update systems of Splash and GameWon *)

\* the despawns of one start trigger
StartDespawns == <<DespawnAll("SplashScreen"), DespawnAll("StartButton")>>

\* start_button: a Pressed interaction and a Space press each run the same branch
start_button ==
    /\ CanRun("start_button")
    /\ Ran("start_button")
    /\ \E pressed \in BOOLEAN, space \in BOOLEAN :
          /\ commands' = commands \o (IF pressed THEN StartDespawns ELSE <<>>)
                                  \o (IF space THEN StartDespawns ELSE <<>>)
          /\ nextState' = IF pressed \/ space THEN "Playing" ELSE nextState
    /\ UNCHANGED <<gameState, score, balls, paddles, blocks, walls, scoreText, ui, dt,
                   phase, frame, games, origin, clog, sinceHit>>

\* RestartDespawns with the Paddle left out of the game_entities query
RestartDespawnsKeepPaddle == <<DespawnAll("WinScreen"), DespawnAll("RestartButton"),
                               DespawnAll("Ball"), DespawnAll("Blocks"), DespawnAll("Score")>>

\* RestartDespawns with the Ball left out of the game_entities query
RestartDespawnsKeepBall == <<DespawnAll("WinScreen"), DespawnAll("RestartButton"),
                             DespawnAll("Paddle"), DespawnAll("Blocks"), DespawnAll("Score")>>

\* the despawns of one restart trigger: win screen, restart button, then game_entities
\* (Paddle, Ball, Block or Score; the wall sprites carry none of these)
RestartDespawns == <<DespawnAll("WinScreen"), DespawnAll("RestartButton"),
                     DespawnAll("Paddle"), DespawnAll("Ball"), DespawnAll("Blocks"),
                     DespawnAll("Score")>>

\* restart_button with the score reset forgotten
restart_button_keeps_score ==
    /\ CanRun("restart_button")
    /\ Ran("restart_button")
    /\ \E pressed \in BOOLEAN, space \in BOOLEAN :
          /\ commands' = commands \o (IF pressed THEN RestartDespawns ELSE <<>>)
                                  \o (IF space THEN RestartDespawns ELSE <<>>)
          /\ nextState' = IF pressed \/ space THEN "Playing" ELSE nextState
    /\ UNCHANGED <<gameState, score, balls, paddles, blocks, walls, scoreText, ui, dt, phase,
                   frame, games, origin, clog, sinceHit>>

\* restart_button: either trigger also resets the score and requests Playing
restart_button ==
    /\ CanRun("restart_button")
    /\ Ran("restart_button")
    /\ \E pressed \in BOOLEAN, space \in BOOLEAN :
          /\ commands' = commands \o (IF pressed THEN RestartDespawns ELSE <<>>)
                                  \o (IF space THEN RestartDespawns ELSE <<>>)
          /\ score' = IF pressed \/ space THEN 0 ELSE score
          /\ nextState' = IF pressed \/ space THEN "Playing" ELSE nextState
    /\ UNCHANGED <<gameState, balls, paddles, blocks, walls, scoreText, ui, dt, phase,
                   frame, games, origin, clog, sinceHit>>

----------------------------------------------------------------------------
(* Frame boundaries *)

\* frame time t more since the last destruction; a full cooldown or more (and no
\* destruction yet) is kept as COOLDOWN_MS
Elapse(since, t) == IF since + t > COOLDOWN_MS THEN COOLDOWN_MS ELSE since + t

\* the frame times the clock can give a frame of state s (time is read only in Playing)
FrameTimes(s) == IF s = "Playing" THEN DeltaTimes ELSE {0}

\* setup_game's spawns, applied when the OnEnter schedule ends
SetupGame(w, g) ==
    [w EXCEPT !.paddles = Append(@, NewPaddle),
              !.balls = Append(@, NewBall),
              !.blocks = @ \cup {<<g, c>> : c \in Cells},
              !.scoreText = Append(@, 0),
              !.walls = @ + 2]

\* setup_splash: camera, splash image, start button and its text
SetupSplash(w) ==
    [w EXCEPT !.ui.cameras = @ + 1, !.ui.splash = @ + 1, !.ui.start = @ + 2]

\* clear_game_camera and setup_win_screen: the cameras found are despawned, then the
\* camera, the two WinScreen and the two RestartButton entities are spawned
SetupWinScreen(w) ==
    [Despawn(w, DespawnAll("Camera")) EXCEPT !.ui.cameras = 1, !.ui.win = 2, !.ui.restart = 2]

\* the world w written back to the entity variables
SetWorld(w) ==
    /\ balls' = w.balls
    /\ paddles' = w.paddles
    /\ blocks' = w.blocks
    /\ scoreText' = w.scoreText
    /\ ui' = w.ui
    /\ walls' = w.walls

\* the behaviour started from a scene and is still in that scene's game
InSceneGame == origin # "boot" /\ games = (IF origin = "replay" THEN 2 ELSE 1)

\* the frame count at which the current game is left alone: MaxFrames frames of a
\* fresh game, MaxFrames more after the scene's frame in the game of a scene, and one
\* more still when the scene is followed as a run
FrameLimit ==
    IF InSceneGame THEN MaxFrames + 1 + (IF origin = "run" THEN 1 ELSE 0) ELSE MaxFrames

\* a frame starts with no state transition pending
NewFrame ==
    /\ phase = "first"
    /\ nextState = "None"
    /\ gameState = "Playing" => frame < FrameLimit
    /\ phase' = "update"
    /\ \E d \in FrameTimes(gameState) : dt' = d /\ sinceHit' = Elapse(sinceHit, d)
    /\ clog' = NoLog
    /\ UNCHANGED <<gameState, nextState, score, balls, paddles, blocks, walls, scoreText,
                   ui, commands, ran, frame, games, origin>>

\* OnEnter with setup_game left out of OnEnter(Playing)
OnEnterNoSetup(s, w, g) ==
    CASE s = "Splash"  -> SetupSplash(w)
      [] s = "Playing" -> w
      [] s = "GameWon" -> SetupWinScreen(w)

\* the OnEnter(s) systems, their commands applied when that schedule ends
OnEnter(s, w, g) ==
    CASE s = "Splash"  -> SetupSplash(w)
      [] s = "Playing" -> SetupGame(w, g)
      [] s = "GameWon" -> SetupWinScreen(w)

\* the StateTransition schedule with a state pending: the state is set and, unless it
\* is the state already current, OnEnter runs; then the frame starts
StateTransition ==
    /\ phase = "first"
    /\ nextState # "None"
    /\ gameState' = nextState
    /\ nextState' = "None"
    /\ SetWorld(IF nextState = gameState THEN World ELSE OnEnter(nextState, World, games + 1))
    /\ games' = IF nextState = "Playing" /\ gameState # "Playing" THEN games + 1 ELSE games
    /\ frame' = IF nextState = "Playing" /\ gameState # "Playing" THEN 0 ELSE frame
    /\ nextState = gameState /\ gameState = "Playing" => frame < FrameLimit
    /\ phase' = "update"
    /\ \E d \in FrameTimes(nextState) :
          /\ dt' = d
          /\ sinceHit' = IF nextState = gameState THEN Elapse(sinceHit, d) ELSE COOLDOWN_MS
    /\ clog' = NoLog
    /\ UNCHANGED <<score, commands, ran, origin>>

\* the Update schedule ends: its deferred commands are applied
EndFrame ==
    /\ phase = "update"
    /\ ran = SystemsOf(gameState)
    /\ SetWorld(ApplyCommands(World, commands, 1))
    /\ commands' = <<>>
    /\ ran' = {}
    /\ phase' = "first"
    /\ frame' = IF gameState = "Playing" THEN frame + 1 ELSE frame
    /\ UNCHANGED <<gameState, nextState, score, dt, games, origin, clog, sinceHit>>

----------------------------------------------------------------------------
(* Initial states *)

\* after App construction and OnEnter(Splash): setup_splash has spawned the camera,
\* the splash image and the two StartButton entities
InitBoot ==
    /\ gameState = "Splash"
    /\ nextState = "None"
    /\ score = 0
    /\ balls = <<>>
    /\ paddles = <<>>
    /\ blocks = {}
    /\ walls = 0
    /\ scoreText = <<>>
    /\ ui = [cameras |-> 1, splash |-> 1, start |-> 2, win |-> 0, restart |-> 0]
    /\ commands = <<>>
    /\ dt = 0
    /\ phase = "first"
    /\ ran = {}
    /\ frame = 0
    /\ games = 0
    /\ origin = "boot"
    /\ clog = NoLog
    /\ sinceHit = COOLDOWN_MS

\* a moment of the first game, between two of its frames, in game units and milliseconds:
\* ball position and velocity, cooldown, paddle x, remaining bounce time, live cells
Scene(bx, by, vx, vy, cd, px, bt, cells) ==
    [ball |-> [x |-> U(bx), y |-> U(by), vx |-> U(vx), vy |-> U(vy), cooldown |-> cd],
     paddle |-> [x |-> U(px), y |-> PADDLE_REST_Y + (IF bt > 0 THEN U(BOUNCE_NUDGE) ELSE 0),
                 original_y |-> PADDLE_REST_Y, bounce_timer |-> bt, is_bouncing |-> bt > 0],
     cells |-> cells, game |-> 1, origin |-> "scene"]

\* the same moment in the game after one restart
Replayed(sc) == [sc EXCEPT !.game = 2, !.origin = "replay"]

\* the same moment followed as a run of frames
Run(sc) == [sc EXCEPT !.origin = "run"]

\* the blocks still live late in a game: two near the middle, one at the far left
Few == {<<3, 7>>, <<3, 8>>, <<0, 0>>}

Scenes ==
    { Scene(-610, -190, -200, -200, 0, -590, 0, Few),   \* past the left wall, over the paddle
      Scene(30, -190, 200, -200, 0, 0, 0, Few),         \* onto the paddle top, right of centre
      Scene(30, -170, 0, -1000, 0, 0, 100, Few),        \* fast onto a bouncing paddle
      Scene(0, 190, 200, 200, 0, 0, 0, Cells),          \* first block hit, two blocks overlapped
      Scene(0, 190, 200, 200, 50, 0, 0, Few),           \* under two blocks, cooling down
      Scene(-600, 330, 200, 200, 0, 0, 0, Few),         \* past the top wall, on a block
      Scene(-40, 200, 200, 200, 0, 0, 0, {<<3, 7>>}),   \* on the last block
      Scene(0, 100, 200, -200, 84, 120, 100, {}),       \* the last block has just gone
      Scene(610, 0, 200, 200, 0, 590, 0, Few),          \* past the right wall
      Scene(0, -330, 200, -200, 0, 0, 0, Few),          \* past the bottom wall
      Scene(0, -250, 200, 200, 0, 0, 0, Few),           \* under the paddle, moving up
      Scene(600, 190, 800, 600, 0, 0, 0, Cells),        \* fast, on the top-right blocks, no hit yet
      Scene(0, 190, 600, 800, 0, 0, 0, Few),            \* fast into the blocks
      Scene(0, 300, 600, 800, 0, 0, 0, Few) }           \* fast towards the top wall

\* two stacked blocks of the ninth column, and one at the far left
Stack == {<<3, 8>>, <<2, 8>>, <<0, 0>>}

\* the moments of later games, and those followed for more than one frame
MoreScenes ==
    { Replayed(Scene(0, 100, 200, -200, 84, 120, 100, {})),       \* second game, last block gone
      Run(Scene(0, 190, 200, 200, 0, 0, 0, Stack)) }              \* towards two stacked blocks

\* a game in progress: what boot, start (and restart) and setup_game leave, with the
\* ball, the paddle, the live blocks and the score of the scene
InitScene ==
    \E sc \in Scenes \cup MoreScenes :
        /\ gameState = "Playing"
        /\ nextState = "None"
        /\ score = Cardinality(Cells) - Cardinality(sc.cells)
        /\ balls = <<sc.ball>>
        /\ paddles = <<sc.paddle>>
        /\ blocks = {<<sc.game, c>> : c \in sc.cells}
        /\ walls = 2 * sc.game
        /\ scoreText = <<Cardinality(Cells) - Cardinality(sc.cells)>>
        /\ ui = [cameras |-> 1, splash |-> 0, start |-> 0, win |-> 0, restart |-> 0]
        /\ commands = <<>>
        /\ dt = 0
        /\ phase = "first"
        /\ ran = {}
        /\ frame = 1
        /\ games = sc.game
        /\ origin = sc.origin
        /\ clog = NoLog
        /\ sinceHit = COOLDOWN_MS - sc.ball.cooldown

Init == InitBoot \/ InitScene

Next ==
    \/ NewFrame
    \/ StateTransition
    \/ start_button
    \/ paddle_movement_system
    \/ ball_movement
    \/ ball_collision_system
    \/ check_win_condition
    \/ ball_bump_system
    \/ ball_bounds_check
    \/ restart_button
    \/ EndFrame

Spec == Init /\ [][Next]_vars

----------------------------------------------------------------------------
(* Properties *)

\* squared speed of ball b
Speed2(b) == b.vx * b.vx + b.vy * b.vy

\* C1: while Playing the speed of every ball lies in [BALL_START_SPEED, BALL_SPEED_MAX],
\* to within one quantum (the rounding of normalize() * speed), in every state: before
\* and after each of ball_collision_system, ball_bump_system and ball_bounds_check,
\* for every order of the systems, every frame time and every input.
C1_SpeedInBand ==
    \A i \in 1 .. Len(balls) :
        /\ Speed2(balls[i]) >= (U(BALL_START_SPEED) - 1) * (U(BALL_START_SPEED) - 1)
        /\ Speed2(balls[i]) <= (U(BALL_SPEED_MAX) + 1) * (U(BALL_SPEED_MAX) + 1)

\* a collision step has just brought a ball that a block hit sped up beyond
\* BALL_SPEED_MAX back to it
C1_Witness ==
    /\ clog.ran
    /\ clog.hit # {}
    /\ 11 * Length(clog.mid.vx, clog.mid.vy) > 10 * U(BALL_SPEED_MAX)
    /\ Len(balls) = 1
    /\ Length(balls[1].vx, balls[1].vy) = U(BALL_SPEED_MAX)

\* C2: the centre x of every paddle lies in
\* [-WINDOW_WIDTH/2 + PADDLE_WIDTH/2, WINDOW_WIDTH/2 - PADDLE_WIDTH/2] = [-590, 590]
\* in every state, whatever keys are held and whatever bumps happen.
C2_PaddleInField ==
    \A i \in 1 .. Len(paddles) :
        /\ paddles[i].x >= U(-590)
        /\ paddles[i].x <= U(590)

\* the paddle stands at the right limit after paddle_movement_system has run in a frame
\* in which a bump has lifted it
C2_Witness ==
    /\ "paddle_movement_system" \in ran
    /\ "ball_bump_system" \in ran
    /\ Len(paddles) = 1
    /\ paddles[1].x = U(590)
    /\ paddles[1].is_bouncing

\* the state changes GameState makes: Splash -> Playing, Playing -> GameWon,
\* GameWon -> Playing
AllowedTransitions == {<<"Splash", "Playing">>, <<"Playing", "GameWon">>,
                       <<"GameWon", "Playing">>}

\* C3: a run that starts at construction starts in Splash; GameState is always one of
\* Splash, Playing, GameWon; and it only ever changes Splash -> Playing,
\* Playing -> GameWon or GameWon -> Playing (Splash is never re-entered and never
\* goes to GameWon directly).
C3_StateMachine ==
    /\ origin = "boot" => gameState = "Splash"
    /\ [](gameState \in {"Splash", "Playing", "GameWon"})
    /\ [][gameState' # gameState => <<gameState, gameState'>> \in AllowedTransitions]_vars

\* Playing has been re-entered from GameWon: a second game is running
C3_Witness ==
    /\ gameState = "Playing"
    /\ games = 2
    /\ phase = "update"

\* the step is ball_collision_system running
CollisionStep == "ball_collision_system" \notin ran /\ "ball_collision_system" \in ran'

\* the frame has just ended (its commands are applied) and its collision step found a ball
FrameEnded == phase = "first" /\ clog.ran

\* C4 (as claimed): when the collision step of a frame destroys the last live block,
\* then at the end of that frame GameState is GameWon, or at least GameWon is requested.
C4_WonInSameFrame ==
    (FrameEnded /\ clog.hit # {} /\ blocks = {}) =>
        (gameState = "GameWon" \/ nextState = "GameWon")

\* C5: GameWon is never requested and never current while a block is live (a block
\* whose despawn is queued is live until the frame's commands are applied); this
\* includes the first frame of every game.
C5_WonOnlyWhenCleared ==
    (gameState = "GameWon" \/ nextState = "GameWon") => blocks = {}

\* GameWon has been entered
C5_Witness == gameState = "GameWon" /\ phase = "update" /\ ran = {}

\* the positions of the full grid: 16 columns from x = -600 every 80, 4 rows from
\* y = 310 down every 30
GridPositions == {<<U(-600 + 80 * i), U(310 - 30 * l)>> : l \in 0 .. 3, i \in 0 .. 15}

\* C6: at the start of the first Playing frame after a restart, Score is 0, the live
\* blocks are the full grid at the original positions (64 entities), there is exactly
\* one ball, at the centre with velocity (200, 200) and cooldown 0, exactly one paddle,
\* centred at its rest height and not bouncing, and GameState is Playing.
C6_FreshAfterRestart ==
    (gameState = "Playing" /\ games >= 2 /\ phase = "update" /\ ran = {} /\ frame = 0) =>
        /\ score = 0
        /\ Cardinality(blocks) = 64
        /\ {<<BlockX(e[2]), BlockY(e[2])>> : e \in blocks} = GridPositions
        /\ balls = <<[x |-> 0, y |-> 0, vx |-> U(200), vy |-> U(200), cooldown |-> 0]>>
        /\ Len(paddles) = 1
        /\ paddles[1].x = 0
        /\ paddles[1].y = U(-220)
        /\ ~paddles[1].is_bouncing

\* the first frame of the second game is about to run its systems
C6_Witness ==
    /\ gameState = "Playing"
    /\ games = 2
    /\ phase = "update"
    /\ ran = {}
    /\ frame = 0
    /\ origin = "scene"

\* C7: a collision step that finds the ball over a live block with cooldown > 0 at the
\* block test queues no despawn, leaves the score and its display alone, and leaves
\* velocity.y with the sign it had before the block test.
C7_CooldownGates ==
    [][(CollisionStep /\ clog'.ran /\ clog'.mid.cooldown > 0 /\ clog'.over # {}) =>
          /\ commands' = commands
          /\ score' = score
          /\ scoreText' = scoreText
          /\ Sign(balls'[1].vy) = Sign(clog'.mid.vy)]_vars

\* the collision step found the ball over a live block while cooling down
C7_Witness ==
    /\ clog.ran
    /\ clog.mid.cooldown > 0
    /\ clog.over # {}
    /\ clog.hit = {}

AfterWalls == TopWall(BottomWall(SideWalls(balls[1])))

\* the ball, moving down, is on the top face of the one paddle, its centre 60% of the
\* paddle half-width right of the paddle centre
TopHitAt60 ==
    /\ Len(balls) = 1
    /\ Len(paddles) = 1
    /\ HitsTopFace(AfterWalls, paddles[1])
    /\ 10 * (AfterWalls.x - paddles[1].x) = 6 * PADDLE_HW

\* C9 (as claimed): after a collision step with such a hit velocity.y is positive and
\* velocity.x is exactly 0.8 * BALL_START_SPEED = 160.
C9_AimExact ==
    [][(CollisionStep /\ TopHitAt60) =>
          /\ balls'[1].vy > 0
          /\ balls'[1].vx = U(160)]_vars

\* C9 (amended): after such a step velocity.y is positive and velocity.x is
\* 1.15 * 0.8 * BALL_START_SPEED = 184, rescaled by the speed clamp when the speed of
\* (184, 1.15 * |velocity.y|) lies outside [BALL_START_SPEED, BALL_SPEED_MAX].
C9_AimScaled ==
    [][(CollisionStep /\ TopHitAt60) =>
          LET vy == Times(Abs(AfterWalls.vy), 115, 100)
              len == Length(U(184), vy)
              speed == Clamp(len, U(BALL_START_SPEED), U(BALL_SPEED_MAX))
          IN  /\ balls'[1].vy > 0
              /\ balls'[1].vx = RoundDiv(U(184) * speed, len)
              /\ speed = len => balls'[1].vx = U(184)]_vars

\* a collision step has turned a ball that came down on the paddle 30 units right of
\* its centre; the paddle has not moved since
C9_Witness ==
    /\ clog.ran
    /\ "paddle_movement_system" \notin ran
    /\ "ball_bump_system" \notin ran
    /\ Len(paddles) = 1
    /\ HitsTopFace(TopWall(BottomWall(SideWalls(clog.pre))), paddles[1])
    /\ clog.pre.x - paddles[1].x = U(30)
    /\ balls[1].vx = U(184)
    /\ balls[1].vy > 0

\* C10 (as claimed): a collision step that finds the ball moving left with its
\* effective left edge beyond the left boundary leaves velocity.x positive and |x| at
\* the half width minus half the effective ball size.
C10_LeftWallReflects ==
    [][(CollisionStep /\ Len(balls) = 1 /\ balls[1].vx < 0 /\ balls[1].x - EBH < -HALF_W) =>
          /\ balls'[1].vx > 0
          /\ Abs(balls'[1].x) = HALF_W - EBH]_vars

\* the step is check_win_condition running
WinCheckStep == "check_win_condition" \notin ran /\ "check_win_condition" \in ran'

\* C11 (as claimed): in every Playing frame ball_movement has run when
\* ball_collision_system (which ends with the speed clamp) runs, and
\* ball_collision_system has run when check_win_condition runs.
C11_FixedOrder ==
    [][/\ CollisionStep => "ball_movement" \in ran
       /\ WinCheckStep => "ball_collision_system" \in ran]_vars

\* the step is restart_button running
RestartStep == "restart_button" \notin ran /\ "restart_button" \in ran'

\* C12: in GameWon, a run of restart_button that sees a restart action (it queues its
\* despawns) requests Playing; the request stands until the frame ends; and the next
\* frame starts in Playing with setup_game run again (a new ball, paddle, block grid,
\* score text and pair of walls), whatever the number of games played before.
C12_RestartReturns ==
    [][/\ (RestartStep /\ commands' # commands) => nextState' = "Playing"
       /\ (gameState = "GameWon" /\ nextState = "Playing" /\ phase = "update") =>
              (gameState' = "GameWon" /\ nextState' = "Playing")
       /\ (gameState = "GameWon" /\ nextState = "Playing" /\ phase = "first") =>
              /\ gameState' = "Playing"
              /\ phase' = "update"
              /\ games' = games + 1
              /\ balls' = Append(balls, NewBall)
              /\ paddles' = Append(paddles, NewPaddle)
              /\ blocks' = blocks \cup {<<games + 1, c>> : c \in Cells}
              /\ scoreText' = Append(scoreText, 0)
              /\ walls' = walls + 2]_vars

\* the third game is running: Playing -> GameWon -> Playing has been gone through after
\* the second game as after the first
C12_Witness ==
    /\ gameState = "Playing"
    /\ games = 3
    /\ phase = "update"
    /\ balls = <<NewBall>>

\* the despawns one trigger of the current state's button queues
OneTrigger == IF gameState = "Splash" THEN StartDespawns ELSE RestartDespawns

\* C13: when a Splash or GameWon frame in which the start or restart action was seen
\* (once, or twice: pointer press and Space) ends, every queued despawn is applied,
\* those that find their entities gone or their set empty included, and the entities
\* left are those a single trigger leaves: no splash or win screen entity, no ball,
\* paddle, block or score text, the camera kept; Score is 0 and Playing is requested
\* once.  The Playing frame that follows starts with exactly one ball, one paddle, one
\* score text and the 64 blocks.
C13_TeardownIdempotent ==
    [][/\ (phase = "update" /\ phase' = "first" /\ gameState # "Playing" /\ commands # <<>>) =>
              /\ World' = ApplyCommands(World, OneTrigger, 1)
              /\ balls' = <<>> /\ paddles' = <<>> /\ blocks' = {} /\ scoreText' = <<>>
              /\ ui' = [cameras |-> 1, splash |-> 0, start |-> 0, win |-> 0, restart |-> 0]
              /\ commands' = <<>>
              /\ score' = 0
              /\ nextState' = "Playing"
       /\ (phase = "first" /\ gameState # "Playing" /\ nextState = "Playing") =>
              /\ gameState' = "Playing"
              /\ games' = games + 1
              /\ Len(balls') = 1 /\ Len(paddles') = 1 /\ Len(scoreText') = 1
              /\ Cardinality(blocks') = Cardinality(Cells)]_vars

\* restart_button has seen both triggers in one GameWon frame: every despawn is queued
\* twice, over a block set that is empty
C13_Witness ==
    /\ gameState = "GameWon"
    /\ "restart_button" \in ran
    /\ commands = RestartDespawns \o RestartDespawns
    /\ blocks = {}
    /\ nextState = "Playing"

\* C14: whenever GameState is Playing (so in every Update frame of Playing), in the
\* first game and after any number of restarts, there is exactly one Ball and exactly
\* one Paddle.
C14_OneBallOnePaddle ==
    gameState = "Playing" => (Len(balls) = 1 /\ Len(paddles) = 1)

\* a frame of a game entered by a restart has run all its systems
C14_Witness ==
    /\ gameState = "Playing"
    /\ games >= 2
    /\ ran = PlayingSystems
    /\ Len(balls) = 1
    /\ Len(paddles) = 1

\* C15: Score is 0 whenever Playing is entered (from Splash and from every restart);
\* it never decreases while GameState stays Playing; and a step changes it only as the
\* destruction branch of a collision step (+1) or as a restart trigger (to 0).
C15_ScoreDiscipline ==
    [][/\ (gameState # "Playing" /\ gameState' = "Playing") => score' = 0
       /\ (gameState = "Playing" /\ gameState' = "Playing") => score' >= score
       /\ score' # score =>
              \/ CollisionStep /\ clog'.hit # {} /\ score' = score + 1
              \/ RestartStep /\ commands' # commands /\ score' = 0]_vars

\* a game entered by a restart, after a game that had scored, runs with Score 0
C15_Witness ==
    /\ gameState = "Playing"
    /\ games >= 2
    /\ score = 0
    /\ "check_win_condition" \in ran

\* C16 (as claimed): whenever GameState is GameWon there is no Ball and no Paddle.
C16_TornDownInGameWon ==
    gameState = "GameWon" => (balls = <<>> /\ paddles = <<>>)

\* C17: a collision step queues at most one despawn, of a block that is live and has
\* no despawn queued, and raises Score by one exactly then; so a Playing frame ends
\* with at most one block fewer and Score at most one higher than at its collision
\* step, also when the ball was over several live blocks; and between frames the
\* cooldown lies in [0, 0.1 s].
C17_OneBlockPerFrame ==
    /\ [][CollisionStep =>
              \/ commands' = commands /\ score' = score
              \/ \E e \in blocks :
                    /\ \A i \in 1 .. Len(commands) : commands[i] # DespawnBlock(e)
                    /\ commands' = Append(commands, DespawnBlock(e))
                    /\ score' = score + 1]_vars
    /\ [][(gameState = "Playing" /\ phase = "update" /\ phase' = "first") =>
              /\ Len(commands) <= 1
              /\ blocks' \subseteq blocks
              /\ Cardinality(blocks) - Cardinality(blocks') <= 1
              /\ clog.ran => score' - clog.score <= 1]_vars
    /\ [](phase = "first" =>
              \A i \in 1 .. Len(balls) :
                  balls[i].cooldown >= 0 /\ balls[i].cooldown <= COOLDOWN_MS)

\* a frame has ended whose collision step found the ball over two live blocks and
\* destroyed one of them
C17_Witness ==
    /\ FrameEnded
    /\ Cardinality(clog.over) >= 2
    /\ Cardinality(clog.hit) = 1
    /\ score = clog.score + 1
    /\ clog.hit \cap blocks = {}
    /\ Cardinality(clog.over \cap blocks) >= 1

\* C18: between the frames of Playing (the frame's despawns applied) Score plus the
\* number of live blocks is the size of the full grid, 64; and GameWon is entered only
\* with Score 64.
C18_ScorePlusBlocks ==
    /\ [](gameState = "Playing" /\ phase = "first" => score + Cardinality(blocks) = 64)
    /\ [][(gameState # "GameWon" /\ gameState' = "GameWon") => score' = 64]_vars

\* a Playing frame that destroyed a block has ended
C18_Witness ==
    /\ FrameEnded
    /\ gameState = "Playing"
    /\ clog.hit # {}
    /\ score = clog.score + 1
    /\ score + Cardinality(blocks) = Cardinality(Cells)

\* C19 (as claimed): a collision step destroys a block only when the frame times of
\* the frames after the frame of the last destruction, this frame included, add up to
\* at least 0.1 s.
C19_CooldownSpansTime ==
    [][(CollisionStep /\ clog'.ran /\ clog'.hit # {}) => sinceHit >= COOLDOWN_MS]_vars

\* C20 (as claimed): a collision step that finds the ball's effective top edge beyond
\* the top boundary leaves velocity.y negative, and one that finds its effective
\* bottom edge beyond the bottom boundary leaves velocity.y positive, whatever else
\* the ball overlaps.
C20_FarWallsReflect ==
    [][(CollisionStep /\ Len(balls) = 1) =>
          /\ balls[1].y + EBH > HALF_H => balls'[1].vy < 0
          /\ balls[1].y - EBH < -HALF_H => balls'[1].vy > 0]_vars

\* the step is ball_bump_system running
BumpStep == "ball_bump_system" \notin ran /\ "ball_bump_system" \in ran'

\* C21: a run of ball_bump_system that finds the paddle mid-bounce, with or without a
\* bump, only lets the timer run down by the frame time (it is not set back to 0.2 s)
\* and leaves the paddle where it is or returns it to rest; and in every state the
\* paddle's y is its spawn rest height + 15 when is_bouncing is true and exactly its
\* spawn rest height when it is false, with original_y the spawn rest height.
C21_BounceBounded ==
    /\ [][(BumpStep /\ Len(paddles) = 1 /\ paddles[1].is_bouncing) =>
              /\ paddles'[1].bounce_timer = paddles[1].bounce_timer - dt
              /\ paddles'[1].original_y = paddles[1].original_y
              /\ paddles'[1].y \in {paddles[1].y, paddles[1].original_y}]_vars
    /\ [](\A i \in 1 .. Len(paddles) :
              /\ paddles[i].original_y = PADDLE_REST_Y
              /\ paddles[i].y = PADDLE_REST_Y + (IF paddles[i].is_bouncing THEN U(15) ELSE 0))

\* ball_bump_system has run for the second frame on a paddle that a bump lifted
C21_Witness ==
    /\ "ball_bump_system" \in ran
    /\ Len(paddles) = 1
    /\ paddles[1].is_bouncing
    /\ paddles[1].bounce_timer = BOUNCE_MS - 32
    /\ paddles[1].y = PADDLE_REST_Y + U(15)

\* the step is ball_bounds_check running
BoundsStep == "ball_bounds_check" \notin ran /\ "ball_bounds_check" \in ran'

\* C22 (as claimed): a run of ball_bounds_check that finds |x| beyond half the field
\* width + 100 or |y| beyond half the field height + 100 leaves the ball at the centre
\* with velocity (200, 200); and after every run the ball is within 100 units of the
\* field's half-extent on each axis.
C22_WatchdogResets ==
    [][(BoundsStep /\ Len(balls) = 1) =>
          /\ (Abs(balls[1].x) > HALF_W + U(100) \/ Abs(balls[1].y) > HALF_H + U(100)) =>
                 /\ balls'[1].x = 0 /\ balls'[1].y = 0
                 /\ balls'[1].vx = U(BALL_START_SPEED) /\ balls'[1].vy = U(BALL_START_SPEED)
          /\ Abs(balls'[1].x) <= HALF_W + U(100)
          /\ Abs(balls'[1].y) <= HALF_H + U(100)]_vars

\* C23: in a collision step, a top-face hit finds the ball centre above the paddle
\* centre and leaves the paddle tests with velocity.y = 1.15 * |velocity.y|; a
\* bottom-face hit finds it below and leaves them with velocity.y = -1.3 * |velocity.y|;
\* and the two face branches do not both fire in the step.
C23_FactorByFace ==
    [][(CollisionStep /\ Len(balls) = 1 /\ Len(paddles) = 1) =>
          LET w == AfterWalls
              p == paddles[1]
          IN  /\ HitsTopFace(w, p) =>
                     /\ w.y > p.y
                     /\ clog'.mid.vy = Times(Abs(w.vy), 115, 100)
                     /\ ~HitsBottomFace(TopFace(w, p), p)
              /\ HitsBottomFace(w, p) =>
                     /\ w.y < p.y
                     /\ clog'.mid.vy = -Times(Abs(w.vy), 13, 10)
                     /\ ~HitsTopFace(w, p)]_vars

\* a collision step has turned down a ball that came up under the paddle, 1.3 times
\* as fast; the paddle has not moved since
C23_Witness ==
    /\ clog.ran
    /\ "paddle_movement_system" \notin ran
    /\ "ball_bump_system" \notin ran
    /\ Len(paddles) = 1
    /\ HitsBottomFace(TopWall(BottomWall(SideWalls(clog.pre))), paddles[1])
    /\ clog.mid.vy = -Times(Abs(clog.pre.vy), 13, 10)

\* C24 (as claimed): whenever GameState is Playing there are exactly two wall entities.
C24_TwoWalls ==
    gameState = "Playing" => walls = 2

====
